---- MODULE Spec2Model ----
(***************************************************************************)
(* Model of monai/networks/blocks/convolutions.py: the construction of a   *)
(* Convolution block and of a ResidualUnit, and the tensor shapes their    *)
(* forward passes produce.                                                 *)
(*                                                                         *)
(* Python values are modelled by records of one shape per kind, so that    *)
(* any two of them can be compared:                                        *)
(*   - an "int or per-axis sequence" argument (strides, kernel_size,       *)
(*     dilation, padding) is [seq, v]: seq says whether it is a sequence,  *)
(*     v holds the numbers (one number when it is an int);                 *)
(*   - a layer spec (act, norm, dropout) is [t, name, kwargs, num]:        *)
(*     None, a bare number, a bare name, or a (name, kwargs) pair;         *)
(*     kwargs is a set of <<key, value>> pairs, the value of a dropout     *)
(*     probability being given in tenths;                                  *)
(*   - a constructed layer is one record of the constructor's arguments.   *)
(***************************************************************************)
EXTENDS Integers, Sequences, FiniteSets

VARIABLES args, obj, out

vars == <<args, obj, out>>

(* ------------------------------ bounds -------------------------------- *)

MaxStride == 2
MaxKernel == 3
MaxDilation == 2
MaxSize == 2
MaxSubunits == 2
MaxTenths == 1

Dims == {1, 2, 3}
Channels == {1, 2}

(* ------------------------- int or sequence ---------------------------- *)

Int1(n) == [seq |-> FALSE, v |-> <<n>>]
Tup(s) == [seq |-> TRUE, v |-> s]
NoValue == [seq |-> FALSE, v |-> <<>>]

\* The value a per-axis consumer reads on axis i: an int applies to every axis.
Axis(x, i) == IF x.seq THEN x.v[i] ELSE x.v[1]

RECURSIVE SeqProd(_)
SeqProd(s) == IF s = <<>> THEN 1 ELSE Head(s) * SeqProd(Tail(s))

\* np.prod(strides)
Prod(x) == SeqProd(x.v)

(* ---------------------------- layer specs ----------------------------- *)

None == [t |-> "none", name |-> "", kwargs |-> {}, num |-> 0]
Num(n) == [t |-> "num", name |-> "", kwargs |-> {}, num |-> n]
Name(s) == [t |-> "name", name |-> s, kwargs |-> {}, num |-> 0]
Pair(s, kw) == [t |-> "pair", name |-> s, kwargs |-> kw, num |-> 0]

\* Python truth value of a layer spec: None and the number 0 are false.
Truthy(x) == ~(x.t = "none" \/ (x.t = "num" /\ x.num = 0))

\* The names the factories register; any other name fails the lookup.
NormNames == {"instance", "batch"}
ActNames == {"prelu", "relu"}
DropoutNames == {"dropout", "alphadropout"}

ActPRELU == "prelu"
NormINSTANCE == "instance"
DropoutDROPOUT == "dropout"
ConvCONV == "conv"
ConvCONVTRANS == "convtrans"

Ok(val) == [ok |-> TRUE, err |-> "", val |-> val]
Fail(e, val) == [ok |-> FALSE, err |-> e, val |-> val]

\* split_args: a bare name has no keyword arguments, a pair is taken apart.
\* Anything else (None) names no registered layer.
split_args(x) ==
    IF x.t = "name" THEN [name |-> x.name, kwargs |-> {}]
    ELSE IF x.t = "pair" THEN [name |-> x.name, kwargs |-> x.kwargs]
    ELSE [name |-> "", kwargs |-> {}]

\* Factory[name, dimensions]: the layer type, or a lookup failure.
Lookup(registered, name, dims) ==
    IF name \in registered
    THEN Ok([name |-> name, dims |-> dims])
    ELSE Fail("LookupError", [name |-> "", dims |-> 0])

\* Act[name]: activations do not depend on the dimensionality.
LookupAct(name) ==
    IF name \in ActNames
    THEN Ok([name |-> name, dims |-> 0])
    ELSE Fail("LookupError", [name |-> "", dims |-> 0])

(* -------------------------- padding calculator ------------------------ *)

Broadcast(a, b) == IF a.seq THEN Len(a.v) ELSE Len(b.v)

\* same_padding(kernel_size, dilation): ((k - 1) * d) // 2 on every axis,
\* refused when a kernel size is even.
same_padding(kernel_size, dilation) ==
    LET n == Broadcast(kernel_size, dilation)
        isseq == kernel_size.seq \/ dilation.seq
        p == [i \in 1..n |->
                ((Axis(kernel_size, i) - 1) * Axis(dilation, i)) \div 2]
    IN  IF \E i \in 1..n : Axis(kernel_size, i) % 2 = 0
        THEN Fail("PaddingError", NoValue)
        ELSE Ok([seq |-> isseq, v |-> p])

(* ------------------------------- layers ------------------------------- *)

\* One constructed primitive layer: the type the factory resolved and the
\* arguments its constructor received (the fields a type does not take hold
\* NoValue or 0).
Layer(type, dims, cin, cout, k, s, p, op, d, bias, kwargs) ==
    [type |-> type, dims |-> dims, in_channels |-> cin, out_channels |-> cout,
     kernel_size |-> k, stride |-> s, padding |-> p, output_padding |-> op,
     dilation |-> d, bias |-> bias, kwargs |-> kwargs]

\* nn.Identity()
Identity == Layer("identity", 0, 0, 0, NoValue, NoValue, NoValue, NoValue,
                  NoValue, FALSE, {})

\* norm_type(out_channels, **norm_args)
NormLayer(type, cout, kwargs) ==
    Layer(type.name, type.dims, 0, cout, NoValue, NoValue, NoValue, NoValue,
          NoValue, FALSE, kwargs)

\* drop_type(**drop_args) and act_type(**act_args)
KwLayer(type, kwargs) ==
    Layer(type.name, type.dims, 0, 0, NoValue, NoValue, NoValue, NoValue,
          NoValue, FALSE, kwargs)

\* strides - 1: Python subtracts from an int and raises TypeError on a sequence.
StridesMinusOne(strides) ==
    IF strides.seq THEN Fail("TypeError", NoValue)
    ELSE Ok(Int1(strides.v[1] - 1))

\* MakeConv with the dilation left out of the plain constructor's arguments.
MakeConvNoDilation(a, padding) ==
    IF a.is_transposed
    THEN LET op == StridesMinusOne(a.strides)
         IN  IF ~op.ok THEN Fail(op.err, Identity)
             ELSE Ok(Layer(ConvCONVTRANS, a.dimensions, a.in_channels,
                           a.out_channels, a.kernel_size, a.strides, padding,
                           op.val, a.dilation, a.bias, {}))
    ELSE Ok(Layer(ConvCONV, a.dimensions, a.in_channels, a.out_channels,
                  a.kernel_size, a.strides, padding, Int1(0), Int1(1),
                  a.bias, {}))

\* The convolution layer of a block: the transposed constructor takes
\* (in, out, kernel_size, stride, padding, output_padding, groups, bias,
\* dilation), the plain one (in, out, kernel_size, stride, padding, dilation,
\* bias=bias).
MakeConv(a, padding) ==
    IF a.is_transposed
    THEN LET op == StridesMinusOne(a.strides)
         IN  IF ~op.ok THEN Fail(op.err, Identity)
             ELSE Ok(Layer(ConvCONVTRANS, a.dimensions, a.in_channels,
                           a.out_channels, a.kernel_size, a.strides, padding,
                           op.val, a.dilation, a.bias, {}))
    ELSE Ok(Layer(ConvCONV, a.dimensions, a.in_channels, a.out_channels,
                  a.kernel_size, a.strides, padding, Int1(0), a.dilation,
                  a.bias, {}))

\* DropSpec giving a bare number the keyword "prob".
DropSpecWrongKeyword(dropout) ==
    IF dropout.t = "num"
    THEN [name |-> DropoutDROPOUT, kwargs |-> {<<"prob", dropout.num>>}]
    ELSE split_args(dropout)

\* The (name, kwargs) of the dropout layer: a bare number is the default
\* dropout kind with keyword p.
DropSpec(dropout) ==
    IF dropout.t = "num"
    THEN [name |-> DropoutDROPOUT, kwargs |-> {<<"p", dropout.num>>}]
    ELSE split_args(dropout)

Module(name, layer) == [name |-> name, layer |-> layer]

\* TailModules registering the activation before the dropout.
TailModulesActFirst(a, norm_type, norm_args, drop_type, drop_args, act_type, act_args) ==
    IF a.conv_only THEN <<>>
    ELSE <<Module("norm", NormLayer(norm_type, a.out_channels, norm_args))>>
         \o (IF a.act # None
             THEN <<Module("act", KwLayer(act_type, act_args))>>
             ELSE <<>>)
         \o (IF Truthy(a.dropout)
             THEN <<Module("dropout", KwLayer(drop_type, drop_args))>>
             ELSE <<>>)

\* TailModules testing "dropout is not None" where the code tests "dropout".
TailModulesDropoutNotNone(a, norm_type, norm_args, drop_type, drop_args, act_type, act_args) ==
    IF a.conv_only THEN <<>>
    ELSE <<Module("norm", NormLayer(norm_type, a.out_channels, norm_args))>>
         \o (IF a.dropout # None
             THEN <<Module("dropout", KwLayer(drop_type, drop_args))>>
             ELSE <<>>)
         \o (IF a.act # None
             THEN <<Module("act", KwLayer(act_type, act_args))>>
             ELSE <<>>)

\* The sub-layers registered after "conv", in registration order.
TailModules(a, norm_type, norm_args, drop_type, drop_args, act_type, act_args) ==
    IF a.conv_only THEN <<>>
    ELSE <<Module("norm", NormLayer(norm_type, a.out_channels, norm_args))>>
         \o (IF Truthy(a.dropout)
             THEN <<Module("dropout", KwLayer(drop_type, drop_args))>>
             ELSE <<>>)
         \o (IF a.act # None
             THEN <<Module("act", KwLayer(act_type, act_args))>>
             ELSE <<>>)

\* What a constructor leaves: the object, or the error it raised together
\* with the sub-layers registered by then.
Built(modules) == [status |-> "ok", err |-> "", modules |-> modules]
Raised(err, modules) == [status |-> "error", err |-> err, modules |-> modules]

\* Convolution.__init__ resolving each name only when its sub-layer is added,
\* after "conv" has been registered.
ConvolutionInitLateLookup(a) ==
    LET pad == same_padding(a.kernel_size, a.dilation)
        norm == split_args(a.norm)
        norm_type == Lookup(NormNames, norm.name, a.dimensions)
        act == split_args(a.act)
        act_type == LookupAct(act.name)
        drop == DropSpec(a.dropout)
        drop_type == Lookup(DropoutNames, drop.name, a.dimensions)
        conv == MakeConv(a, pad.val)
        first == <<Module("conv", conv.val)>>
    IN  IF ~pad.ok THEN Raised(pad.err, <<>>)
        ELSE IF ~conv.ok THEN Raised(conv.err, <<>>)
        ELSE IF a.conv_only THEN Built(first)
        ELSE IF ~norm_type.ok THEN Raised(norm_type.err, first)
        ELSE IF Truthy(a.dropout) /\ ~drop_type.ok
             THEN Raised(drop_type.err, first)
        ELSE IF a.act # None /\ ~act_type.ok THEN Raised(act_type.err, first)
        ELSE Built(first
                   \o TailModules(a, norm_type.val, norm.kwargs,
                                  drop_type.val, drop.kwargs,
                                  act_type.val, act.kwargs))

\* Convolution.__init__
ConvolutionInit(a) ==
    LET pad == same_padding(a.kernel_size, a.dilation)
        norm == split_args(a.norm)
        norm_type == Lookup(NormNames, norm.name, a.dimensions)
        act == split_args(a.act)
        act_type == LookupAct(act.name)
        drop == DropSpec(a.dropout)
        drop_type == Lookup(DropoutNames, drop.name, a.dimensions)
        conv == MakeConv(a, pad.val)
    IN  IF ~pad.ok THEN Raised(pad.err, <<>>)
        ELSE IF ~norm_type.ok THEN Raised(norm_type.err, <<>>)
        ELSE IF a.act # None /\ ~act_type.ok THEN Raised(act_type.err, <<>>)
        ELSE IF Truthy(a.dropout) /\ ~drop_type.ok
             THEN Raised(drop_type.err, <<>>)
        ELSE IF ~conv.ok THEN Raised(conv.err, <<>>)
        ELSE Built(<<Module("conv", conv.val)>>
                   \o TailModules(a, norm_type.val, norm.kwargs,
                                  drop_type.val, drop.kwargs,
                                  act_type.val, act.kwargs))

(* ---------------------------- residual unit --------------------------- *)

\* UnitArgs passing last_conv_only to every sub-unit.
UnitArgsAllConvOnly(a, su, subunits, schannels, sstrides) ==
    [dimensions |-> a.dimensions, in_channels |-> schannels,
     out_channels |-> a.out_channels, strides |-> sstrides,
     kernel_size |-> a.kernel_size, act |-> a.act, norm |-> a.norm,
     dropout |-> a.dropout, dilation |-> a.dilation, bias |-> a.bias,
     conv_only |-> a.last_conv_only, is_transposed |-> FALSE]

\* The arguments ResidualUnit passes to the Convolution of sub-unit su.
UnitArgs(a, su, subunits, schannels, sstrides) ==
    [dimensions |-> a.dimensions, in_channels |-> schannels,
     out_channels |-> a.out_channels, strides |-> sstrides,
     kernel_size |-> a.kernel_size, act |-> a.act, norm |-> a.norm,
     dropout |-> a.dropout, dilation |-> a.dilation, bias |-> a.bias,
     conv_only |-> (a.last_conv_only /\ su = subunits - 1),
     is_transposed |-> FALSE]

\* max(1, subunits)
ClampSubunits(n) == IF n < 1 THEN 1 ELSE n

\* BuildUnits without the reset of sstrides after the first sub-unit.
RECURSIVE BuildUnitsKeepStride(_, _, _, _, _, _)
BuildUnitsKeepStride(a, su, subunits, schannels, sstrides, acc) ==
    IF su >= subunits THEN Ok(acc)
    ELSE LET unit == ConvolutionInit(UnitArgs(a, su, subunits, schannels, sstrides))
         IN  IF unit.status # "ok" THEN Fail(unit.err, acc)
             ELSE BuildUnitsKeepStride(a, su + 1, subunits, a.out_channels,
                                       sstrides,
                                       Append(acc, [name |-> <<"unit", su>>,
                                                    modules |-> unit.modules]))

\* The loop over range(subunits): the units built so far are in acc; the
\* first failing Convolution ends the loop with its error.
RECURSIVE BuildUnits(_, _, _, _, _, _)
BuildUnits(a, su, subunits, schannels, sstrides, acc) ==
    IF su >= subunits THEN Ok(acc)
    ELSE LET unit == ConvolutionInit(UnitArgs(a, su, subunits, schannels, sstrides))
         IN  IF unit.status # "ok" THEN Fail(unit.err, acc)
             ELSE BuildUnits(a, su + 1, subunits, a.out_channels, Int1(1),
                             Append(acc, [name |-> <<"unit", su>>,
                                          modules |-> unit.modules]))

\* Residual looking at the channels alone to choose the identity.
ResidualChannelsOnly(a, padding) ==
    IF a.in_channels # a.out_channels
    THEN LET one == Prod(a.strides) = 1
             rkernel_size == IF one THEN Int1(1) ELSE a.kernel_size
             rpadding == IF one THEN Int1(0) ELSE padding
         IN  Layer(ConvCONV, a.dimensions, a.in_channels, a.out_channels,
                   rkernel_size, a.strides, rpadding, Int1(0), Int1(1),
                   a.bias, {})
    ELSE Identity

\* self.residual: the identity, or a plain convolution to the output channels
\* and size.
Residual(a, padding) ==
    IF Prod(a.strides) # 1 \/ a.in_channels # a.out_channels
    THEN LET one == Prod(a.strides) = 1
             rkernel_size == IF one THEN Int1(1) ELSE a.kernel_size
             rpadding == IF one THEN Int1(0) ELSE padding
         IN  Layer(ConvCONV, a.dimensions, a.in_channels, a.out_channels,
                   rkernel_size, a.strides, rpadding, Int1(0), Int1(1),
                   a.bias, {})
    ELSE Identity

BuiltUnit(units, residual) ==
    [status |-> "ok", err |-> "", units |-> units, residual |-> residual]
RaisedUnit(err) ==
    [status |-> "error", err |-> err, units |-> <<>>, residual |-> Identity]

\* ResidualUnit.__init__
ResidualUnitInit(a) ==
    LET pad == same_padding(a.kernel_size, a.dilation)
        subunits == ClampSubunits(a.subunits)
        conv == BuildUnits(a, 0, subunits, a.in_channels, a.strides, <<>>)
    IN  IF ~pad.ok THEN RaisedUnit(pad.err)
        ELSE IF ~conv.ok THEN RaisedUnit(conv.err)
        ELSE BuiltUnit(conv.val, Residual(a, pad.val))

(* ------------------------------- forward ------------------------------ *)

\* A tensor shape: channels and the size of every spatial axis (the batch
\* axis plays no part). ok is false once a layer has refused its input.
Shape(c, sp) == [ok |-> TRUE, c |-> c, sp |-> sp]
ShapeError == [ok |-> FALSE, c |-> 0, sp |-> <<>>]

\* Output size of one axis of a convolution.
ConvSize(n, k, s, p, d) == (n + 2 * p - d * (k - 1) - 1) \div s + 1

\* Output size of one axis of a transposed convolution.
ConvTransSize(n, k, s, p, op, d) == (n - 1) * s - 2 * p + d * (k - 1) + op + 1

\* The shape a primitive layer returns for input shape x: a convolution
\* resizes every axis and sets the channels, every other layer keeps the shape.
LayerForward(l, x) ==
    IF ~x.ok THEN ShapeError
    ELSE IF l.type \in {ConvCONV, ConvCONVTRANS}
    THEN LET sp == [i \in 1..Len(x.sp) |->
                      IF l.type = ConvCONV
                      THEN ConvSize(x.sp[i], Axis(l.kernel_size, i),
                                    Axis(l.stride, i), Axis(l.padding, i),
                                    Axis(l.dilation, i))
                      ELSE ConvTransSize(x.sp[i], Axis(l.kernel_size, i),
                                         Axis(l.stride, i), Axis(l.padding, i),
                                         Axis(l.output_padding, i),
                                         Axis(l.dilation, i))]
         IN  IF x.c # l.in_channels \/ Len(x.sp) # l.dims
                \/ \E i \in 1..Len(x.sp) : sp[i] < 1
             THEN ShapeError
             ELSE Shape(l.out_channels, sp)
    ELSE x

\* nn.Sequential.forward: each registered sub-layer in order.
RECURSIVE SequentialForward(_, _)
SequentialForward(modules, x) ==
    IF modules = <<>> THEN x
    ELSE SequentialForward(Tail(modules), LayerForward(Head(modules).layer, x))

\* self.conv(x) of a ResidualUnit: each sub-unit in order.
RECURSIVE UnitsForward(_, _)
UnitsForward(units, x) ==
    IF units = <<>> THEN x
    ELSE UnitsForward(Tail(units), SequentialForward(Head(units).modules, x))

\* cx + res: the sizes of an axis must agree or one of them be 1.
Add(cx, res) ==
    IF ~cx.ok \/ ~res.ok \/ Len(cx.sp) # Len(res.sp) THEN ShapeError
    ELSE LET fits(m, n) == m = n \/ m = 1 \/ n = 1
             max(m, n) == IF m > n THEN m ELSE n
         IN  IF fits(cx.c, res.c)
                /\ \A i \in 1..Len(cx.sp) : fits(cx.sp[i], res.sp[i])
             THEN Shape(max(cx.c, res.c),
                        [i \in 1..Len(cx.sp) |-> max(cx.sp[i], res.sp[i])])
             ELSE ShapeError

\* What a forward pass leaves: its input, the two paths (of a ResidualUnit)
\* and the result.
Output(x, res, cx, y) == [done |-> TRUE, x |-> x, res |-> res, cx |-> cx, y |-> y]
NoOutput == [done |-> FALSE, x |-> ShapeError, res |-> ShapeError,
             cx |-> ShapeError, y |-> ShapeError]

\* Convolution.forward (nn.Sequential)
ConvolutionForward(o, x) ==
    LET y == SequentialForward(o.modules, x) IN Output(x, ShapeError, y, y)

\* ResidualUnit.forward
ResidualUnitForward(o, x) ==
    LET res == LayerForward(o.residual, x)
        cx == UnitsForward(o.units, x)
    IN  Output(x, res, cx, Add(cx, res))

(* ------------------------------- inputs ------------------------------- *)

\* An int of S, or a sequence of dims numbers of S.
IntOrSeq(dims, S) == {Int1(n) : n \in S} \cup {Tup(s) : s \in [1..dims -> S]}
Ints(S) == {Int1(n) : n \in S}

Acts == {None, Name(ActPRELU), Pair("relu", {<<"inplace", 1>>}), Name("unknown")}
Norms == {None, Name(NormINSTANCE), Pair("batch", {<<"affine", 1>>}), Name("unknown")}
Dropouts ==
    {None, Name("unknown"), Pair("alphadropout", {<<"p", MaxTenths>>})}
    \cup {Num(n) : n \in 0..MaxTenths}
    \cup {Pair(DropoutDROPOUT, {<<"p", n>>}) : n \in 0..MaxTenths}

\* The arguments of a constructor call, of either class (a class ignores the
\* arguments it does not take).
Args(cls, dm, ci, co, s, k, a, n, dr, d, b, conly, tr, su, lco) ==
    [cls |-> cls, dimensions |-> dm, in_channels |-> ci, out_channels |-> co,
     strides |-> s, kernel_size |-> k, act |-> a, norm |-> n, dropout |-> dr,
     dilation |-> d, bias |-> b, conv_only |-> conly, is_transposed |-> tr,
     subunits |-> su, last_conv_only |-> lco]

\* Convolution(...) calls: either the layer options vary and the geometry is
\* the signature's default (with every kernel size), or the geometry varies
\* and the layer options are the signature's defaults.
ConvolutionLayerArgs(a) ==
    \E dm \in Dims, k \in Ints(1..MaxKernel), ac \in Acts, n \in Norms,
       dr \in Dropouts, b \in BOOLEAN, conly \in BOOLEAN, tr \in BOOLEAN :
        a = Args("Convolution", dm, 1, 1, Int1(1), k, ac, n, dr, Int1(1), b,
                 conly, tr, 0, FALSE)

ConvolutionGeometryArgs(a) ==
    \E dm \in Dims, ci \in Channels, co \in Channels :
      \E s \in IntOrSeq(dm, 1..MaxStride), k \in Ints(1..MaxKernel),
         d \in Ints(1..MaxDilation), tr \in BOOLEAN :
        a = Args("Convolution", dm, ci, co, s, k, Name(ActPRELU),
                 Name(NormINSTANCE), None, d, TRUE, FALSE, tr, 0, FALSE)

\* Convolution(...) calls with kernel_size and dilation given per axis.
ConvolutionPerAxisArgs(a) ==
    \E dm \in Dims :
      \E s \in Ints(1..MaxStride), k \in IntOrSeq(dm, 1..MaxKernel),
         d \in IntOrSeq(dm, 1..MaxDilation), tr \in BOOLEAN :
        a = Args("Convolution", dm, 1, 1, s, k, Name(ActPRELU),
                 Name(NormINSTANCE), None, d, TRUE, FALSE, tr, 0, FALSE)

\* ResidualUnit(...) calls, chosen the same way; subunits may be below 1.
ResidualUnitLayerArgs(a) ==
    \E dm \in Dims, k \in Ints(1..MaxKernel), ac \in Acts, n \in Norms,
       dr \in Dropouts, su \in (-1)..MaxSubunits, lco \in BOOLEAN :
        a = Args("ResidualUnit", dm, 1, 1, Int1(1), k, ac, n, dr, Int1(1),
                 TRUE, FALSE, FALSE, su, lco)

ResidualUnitGeometryArgs(a) ==
    \E dm \in Dims, ci \in Channels, co \in Channels :
      \E s \in IntOrSeq(dm, 1..MaxStride), k \in Ints(1..MaxKernel),
         d \in Ints(1..MaxDilation), b \in BOOLEAN, su \in 1..MaxSubunits :
        a = Args("ResidualUnit", dm, ci, co, s, k, Name(ActPRELU),
                 Name(NormINSTANCE), None, d, b, FALSE, FALSE, su, FALSE)

ResidualUnitPerAxisArgs(a) ==
    \E dm \in Dims :
      \E s \in Ints(1..MaxStride), k \in IntOrSeq(dm, 1..MaxKernel),
         d \in IntOrSeq(dm, 1..MaxDilation) :
        a = Args("ResidualUnit", dm, 1, 1, s, k, Name(ActPRELU),
                 Name(NormINSTANCE), None, d, TRUE, FALSE, FALSE, 1, FALSE)

\* The input tensors of a block built from a: its channels, and every spatial
\* size up to MaxSize on each axis.
Inputs(a) == { Shape(a.in_channels, sp) : sp \in [1..a.dimensions -> 1..MaxSize] }

(* ---------------------------- state machine --------------------------- *)

\* A behaviour follows one object: args are the arguments of its constructor
\* call, obj what the constructor left, out what forward returned. forward
\* reads the object and assigns nothing to it, so a second call reaches no
\* state the first does not: each behaviour makes one call.

\* Before the constructor has run.
NotBuilt == [status |-> "new", err |-> "", modules |-> <<>>, units |-> <<>>,
             residual |-> Identity]

InitConvolution ==
    /\ \/ ConvolutionLayerArgs(args)
       \/ ConvolutionGeometryArgs(args)
       \/ ConvolutionPerAxisArgs(args)
    /\ obj = NotBuilt
    /\ out = NoOutput

InitResidualUnit ==
    /\ \/ ResidualUnitLayerArgs(args)
       \/ ResidualUnitGeometryArgs(args)
       \/ ResidualUnitPerAxisArgs(args)
    /\ obj = NotBuilt
    /\ out = NoOutput

NewConvolution ==
    /\ args.cls = "Convolution"
    /\ obj.status = "new"
    /\ obj' = ConvolutionInit(args)
    /\ UNCHANGED <<args, out>>

NewResidualUnit ==
    /\ args.cls = "ResidualUnit"
    /\ obj.status = "new"
    /\ obj' = ResidualUnitInit(args)
    /\ UNCHANGED <<args, out>>

ForwardConvolution(x) ==
    /\ args.cls = "Convolution"
    /\ obj.status = "ok"
    /\ ~out.done
    /\ out' = ConvolutionForward(obj, x)
    /\ UNCHANGED <<args, obj>>

ForwardResidualUnit(x) ==
    /\ args.cls = "ResidualUnit"
    /\ obj.status = "ok"
    /\ ~out.done
    /\ out' = ResidualUnitForward(obj, x)
    /\ UNCHANGED <<args, obj>>

NextConvolution ==
    \/ NewConvolution
    \/ \E x \in Inputs(args) : ForwardConvolution(x)

NextResidualUnit ==
    \/ NewResidualUnit
    \/ \E x \in Inputs(args) : ForwardResidualUnit(x)

SpecConvolution == InitConvolution /\ [][NextConvolution]_vars
SpecResidualUnit == InitResidualUnit /\ [][NextResidualUnit]_vars

Init == InitConvolution \/ InitResidualUnit
Next == NextConvolution \/ NextResidualUnit
Spec == Init /\ [][Next]_vars

(* ------------------------- vocabulary of the claims ------------------- *)

ConvolutionBuilt == args.cls = "Convolution" /\ obj.status = "ok"
ConvolutionFailed == args.cls = "Convolution" /\ obj.status = "error"
ResidualUnitBuilt == args.cls = "ResidualUnit" /\ obj.status = "ok"
Constructed == obj.status # "new"

ModuleNames(modules) == [i \in 1..Len(modules) |-> modules[i].name]
HasModule(modules, name) == \E i \in 1..Len(modules) : modules[i].name = name
Axes == 1..args.dimensions

\* A spec that is neither null nor the number zero.
Requested(x) == x # None /\ x # Num(0)

\* The position the diagram Conv -- Norm -- Dropout -- Acti gives a sub-layer.
Rank(name) ==
    CASE name = "conv" -> 1 [] name = "norm" -> 2 [] name = "dropout" -> 3
      [] name = "act" -> 4 [] OTHER -> 0

\* The sub-layer names of a block that is not conv-only.
FullNames ==
    <<"conv", "norm">>
    \o (IF Requested(args.dropout) THEN <<"dropout">> ELSE <<>>)
    \o (IF args.act # None THEN <<"act">> ELSE <<>>)

AllStridesOne == \A i \in Axes : Axis(args.strides, i) = 1
KernelOdd == \A i \in Axes : Axis(args.kernel_size, i) % 2 = 1
KernelEven == \E i \in Axes : Axis(args.kernel_size, i) % 2 = 0
SamePad(i) == ((Axis(args.kernel_size, i) - 1) * Axis(args.dilation, i)) \div 2

UnknownName(x, registered) == x.t \in {"name", "pair"} /\ x.name \notin registered
UnknownNames ==
    \/ UnknownName(args.norm, NormNames)
    \/ UnknownName(args.act, ActNames)
    \/ UnknownName(args.dropout, DropoutNames)
NamesValid ==
    /\ args.norm # None /\ ~UnknownName(args.norm, NormNames)
    /\ ~UnknownName(args.act, ActNames)
    /\ ~UnknownName(args.dropout, DropoutNames)

(* -------------------------------- claims ------------------------------ *)

\* C1: for every valid ResidualUnit configuration and every input size the
\* residual path and the main path return the same channel count and the
\* same size on every axis. The code breaks it: the residual convolution is
\* built without the dilation, so with a stride above 1 and a dilation above
\* 1 the two paths differ.
C1_PathsSameShape ==
    (ResidualUnitBuilt /\ out.done)
        => /\ out.res.ok /\ out.cx.ok
           /\ out.res.c = out.cx.c
           /\ out.res.sp = out.cx.sp

\* C2: in every constructed Convolution block "conv" is the first sub-layer
\* and the sub-layers are in the order conv, norm, dropout, act.
C2_Order ==
    ConvolutionBuilt
        => /\ Len(obj.modules) >= 1
           /\ obj.modules[1].name = "conv"
           /\ \A i, j \in 1..Len(obj.modules) :
                  i < j => /\ Rank(obj.modules[i].name) >= 1
                           /\ Rank(obj.modules[i].name) < Rank(obj.modules[j].name)

C2_Witness ==
    /\ ConvolutionBuilt
    /\ args.is_transposed
    /\ ModuleNames(obj.modules) = <<"conv", "norm", "dropout", "act">>

\* C3: in a Convolution block norm, dropout and act are each present exactly
\* when conv_only is false and the spec is non-null (non-zero); conv_only
\* gives one sub-layer, no conv_only with all three specs given gives four.
C3_Presence ==
    ConvolutionBuilt
        => /\ HasModule(obj.modules, "norm")
                <=> (~args.conv_only /\ args.norm # None)
           /\ HasModule(obj.modules, "dropout")
                <=> (~args.conv_only /\ Requested(args.dropout))
           /\ HasModule(obj.modules, "act")
                <=> (~args.conv_only /\ args.act # None)
           /\ args.conv_only => Len(obj.modules) = 1
           /\ (~args.conv_only /\ args.act # None /\ args.norm # None
               /\ Requested(args.dropout)) => Len(obj.modules) = 4

C3_Witness ==
    /\ ConvolutionBuilt
    /\ ~args.conv_only
    /\ args.dropout = Num(1)
    /\ args.act # None
    /\ Len(obj.modules) = 4

\* C4: the residual path is the identity exactly when every stride is 1 and
\* the channel counts are equal; otherwise it is one plain convolution from
\* in_channels to out_channels with the requested stride, with kernel 1 and
\* padding 0 when every stride is 1, and with kernel_size and its same
\* padding when not.
C4_Residual ==
    ResidualUnitBuilt
        => LET r == obj.residual
           IN  /\ r = Identity
                    <=> (AllStridesOne /\ args.in_channels = args.out_channels)
               /\ r # Identity
                    => /\ r.type = ConvCONV
                       /\ r.dims = args.dimensions
                       /\ r.in_channels = args.in_channels
                       /\ r.out_channels = args.out_channels
                       /\ r.stride = args.strides
                       /\ r.kwargs = {}
                       /\ AllStridesOne
                            => r.kernel_size = Int1(1) /\ r.padding = Int1(0)
                       /\ ~AllStridesOne
                            => /\ r.kernel_size = args.kernel_size
                               /\ r.padding
                                    = same_padding(args.kernel_size,
                                                   args.dilation).val

C4_Witness ==
    /\ ResidualUnitBuilt
    /\ args.strides = Tup(<<1, 1>>)
    /\ args.in_channels # args.out_channels
    /\ args.kernel_size = Int1(3)
    /\ obj.residual.kernel_size = Int1(1)

\* C5: the main path holds max(1, subunits) Convolution blocks named unit0..
\* in order; the first maps in_channels to out_channels with the requested
\* strides, every later one out_channels to out_channels with stride 1, and
\* kernel_size, dilation, bias and the norm, dropout and act sub-layers are
\* the same in all of them.
C5_Units ==
    ResidualUnitBuilt
        => LET n == IF args.subunits < 1 THEN 1 ELSE args.subunits
               conv(i) == obj.units[i].modules[1].layer
           IN  /\ Len(obj.units) = n
               /\ \A i \in 1..Len(obj.units) :
                    /\ obj.units[i].name = <<"unit", i - 1>>
                    /\ obj.units[i].modules[1].name = "conv"
                    /\ conv(i).type = ConvCONV
                    /\ conv(i).in_channels
                         = (IF i = 1 THEN args.in_channels ELSE args.out_channels)
                    /\ conv(i).out_channels = args.out_channels
                    /\ conv(i).stride = (IF i = 1 THEN args.strides ELSE Int1(1))
                    /\ conv(i).kernel_size = args.kernel_size
                    /\ conv(i).dilation = args.dilation
                    /\ conv(i).bias = args.bias
                    /\ \A j \in 1..Len(obj.units) :
                         (Len(obj.units[i].modules) > 1
                          /\ Len(obj.units[j].modules) > 1)
                            => Tail(obj.units[i].modules) = Tail(obj.units[j].modules)

C5_Witness ==
    /\ ResidualUnitBuilt
    /\ args.subunits = 2
    /\ args.in_channels # args.out_channels
    /\ args.strides = Int1(2)
    /\ ~args.bias
    /\ Len(obj.units) = 2
    /\ obj.units[2].modules[1].layer.stride = Int1(1)

\* C6: a sub-unit holds the conv sub-layer alone exactly when last_conv_only
\* is set and it is the last sub-unit; every other sub-unit holds the full
\* set, also when subunits is below 1.
C6_LastConvOnly ==
    ResidualUnitBuilt
        => \A i \in 1..Len(obj.units) :
              ModuleNames(obj.units[i].modules)
                = (IF args.last_conv_only /\ i = Len(obj.units)
                   THEN <<"conv">> ELSE FullNames)

C6_Witness ==
    /\ ResidualUnitBuilt
    /\ args.last_conv_only
    /\ Len(obj.units) = 2
    /\ ModuleNames(obj.units[1].modules) = <<"conv", "norm", "dropout", "act">>
    /\ ModuleNames(obj.units[2].modules) = <<"conv">>

\* C7: a transposed Convolution block is built with output padding
\* strides - 1 for every valid strides value, an int or a per-axis sequence,
\* and its output size is the input size times the stride. The code breaks
\* it: strides - 1 raises TypeError when strides is a sequence.
C7_OutputPadding ==
    (args.cls = "Convolution" /\ Constructed /\ args.is_transposed
     /\ KernelOdd /\ NamesValid)
        => /\ obj.status = "ok"
           /\ \A i \in Axes :
                Axis(obj.modules[1].layer.output_padding, i)
                  = Axis(args.strides, i) - 1
           /\ out.done
                => /\ out.y.ok
                   /\ \A i \in Axes :
                        out.y.sp[i] = out.x.sp[i] * Axis(args.strides, i)

\* C8, as the claim states it: a bare number as dropout gives a dropout
\* sub-layer of the default kind with keyword p, and the block is the one
\* the explicit (default kind, {p: value}) spec gives.
C8_Shorthand ==
    (args.cls = "Convolution" /\ Constructed /\ args.dropout.t = "num")
        => /\ obj = ConvolutionInit(
                      [args EXCEPT !.dropout =
                          Pair(DropoutDROPOUT, {<<"p", args.dropout.num>>})])
           /\ obj.status = "ok"
                => \E i \in 1..Len(obj.modules) :
                     /\ obj.modules[i].name = "dropout"
                     /\ obj.modules[i].layer.type = DropoutDROPOUT
                     /\ obj.modules[i].layer.dims = args.dimensions
                     /\ obj.modules[i].layer.kwargs = {<<"p", args.dropout.num>>}

\* C8, amended: a bare non-zero number as dropout gives the block the
\* explicit (default kind, {p: value}) spec gives, and unless conv_only is
\* set that block has a dropout sub-layer of the default kind for the
\* dimensionality, with keyword p; a (name, kwargs) spec gives a dropout
\* sub-layer of the named kind with those keywords.
C8_ShorthandNonZero ==
    /\ (args.cls = "Convolution" /\ Constructed /\ args.dropout.t = "num"
        /\ args.dropout.num # 0)
          => /\ obj = ConvolutionInit(
                        [args EXCEPT !.dropout =
                            Pair(DropoutDROPOUT, {<<"p", args.dropout.num>>})])
             /\ (obj.status = "ok" /\ ~args.conv_only)
                  => \E i \in 1..Len(obj.modules) :
                       /\ obj.modules[i].name = "dropout"
                       /\ obj.modules[i].layer.type = DropoutDROPOUT
                       /\ obj.modules[i].layer.dims = args.dimensions
                       /\ obj.modules[i].layer.kwargs = {<<"p", args.dropout.num>>}
    /\ (ConvolutionBuilt /\ args.dropout.t = "pair" /\ ~args.conv_only)
          => \E i \in 1..Len(obj.modules) :
               /\ obj.modules[i].name = "dropout"
               /\ obj.modules[i].layer.type = args.dropout.name
               /\ obj.modules[i].layer.dims = args.dimensions
               /\ obj.modules[i].layer.kwargs = args.dropout.kwargs

C8_Witness ==
    /\ ConvolutionBuilt
    /\ args.dropout = Num(1)
    /\ ~args.conv_only
    /\ args.dimensions = 2
    /\ \E i \in 1..Len(obj.modules) :
         /\ obj.modules[i].name = "dropout"
         /\ obj.modules[i].layer.kwargs = {<<"p", 1>>}

\* C9: the padding a Convolution block passes to its convolution is
\* (k - 1) * d / 2 on every axis, and with stride 1 the plain convolution
\* returns the spatial size it was given.
C9_SamePadding ==
    ConvolutionBuilt
        => /\ \A i \in Axes :
                /\ Axis(obj.modules[1].layer.padding, i) = SamePad(i)
                /\ 2 * SamePad(i)
                     = (Axis(args.kernel_size, i) - 1) * Axis(args.dilation, i)
           /\ (~args.is_transposed /\ AllStridesOne /\ out.done)
                => out.y.ok /\ out.y.sp = out.x.sp

C9_Witness ==
    /\ ConvolutionBuilt
    /\ ~args.is_transposed
    /\ args.strides = Int1(1)
    /\ args.kernel_size = Tup(<<3, 1>>)
    /\ args.dilation = Tup(<<2, 1>>)
    /\ obj.modules[1].layer.padding = Tup(<<2, 0>>)
    /\ out.done
    /\ out.x.sp = <<1, 2>>
    /\ out.y.sp = <<1, 2>>

\* C10: an even kernel size or an unknown norm, act or dropout name makes the
\* constructor fail with the error of the padding calculator or of the
\* factory, before a Convolution has registered any sub-layer; no
\* ResidualUnit is produced.
C10_FailFast ==
    (Constructed /\ (KernelEven \/ UnknownNames))
        => /\ obj.status = "error"
           /\ obj.err = (IF KernelEven THEN "PaddingError" ELSE "LookupError")
           /\ args.cls = "Convolution" => obj.modules = <<>>
           /\ ~out.done

C10_Witness ==
    /\ ConvolutionFailed
    /\ args.conv_only
    /\ KernelOdd
    /\ UnknownName(args.dropout, DropoutNames)
    /\ ~UnknownName(args.norm, NormNames) /\ args.norm # None
    /\ obj.err = "LookupError"

====
